---- MODULE Spec2Model ----
(***************************************************************************)
(* The POST /convert handler of app.py (convert_audio) as a state machine. *)
(* A request is handled by one thread of the server; a thread runs the     *)
(* handler from its first line to its return statement, one step per       *)
(* source segment, and then takes the next request.                        *)
(*                                                                         *)
(* Strings whose characters the code inspects (filenames, exception        *)
(* messages) are sequences of one-character strings.                       *)
(***************************************************************************)
EXTENDS Integers, Sequences, FiniteSets, TLC

\* ------------------------------------------------------------------ bounds
\* Server threads handling requests at the same time (specification SpecConc).
NumThreads == 2
\* Names the temporary directory can hold.
NumPaths == 2

Threads == 1..NumThreads
Paths == 1..NumPaths

\* ------------------------------------------------------------ text helpers
Uppers == <<"A","B","C","D","E","F","G","H","I","J","K","L","M",
            "N","O","P","Q","R","S","T","U","V","W","X","Y","Z">>
Lowers == <<"a","b","c","d","e","f","g","h","i","j","k","l","m",
            "n","o","p","q","r","s","t","u","v","w","x","y","z">>
Digits == {"0","1","2","3","4","5","6","7","8","9"}

Range(s) == {s[i] : i \in 1..Len(s)}

\* str.lower() on one character.
LowerChar(c) ==
    IF \E i \in 1..26 : Uppers[i] = c
    THEN Lowers[CHOOSE i \in 1..26 : Uppers[i] = c]
    ELSE c

\* str.lower()
LowerStr(s) == [i \in 1..Len(s) |-> LowerChar(s[i])]

\* pat in s  (substring test)
Contains(s, pat) ==
    \E i \in 0..(Len(s) - Len(pat)) : SubSeq(s, i + 1, i + Len(pat)) = pat

\* '.' in s
HasDot(s) == \E i \in 1..Len(s) : s[i] = "."

\* Index of the final '.' of s (s has one).
LastDot(s) == CHOOSE i \in 1..Len(s) : s[i] = "." /\ \A j \in (i + 1)..Len(s) : s[j] # "."

\* s.rsplit('.', 1)[1], for an s that has a '.'.
RsplitExt(s) == SubSeq(s, LastDot(s) + 1, Len(s))

\* ------------------------------------------------------------ configuration
ALLOWED_EXTENSIONS ==
    { <<"w","a","v">>, <<"m","p","3">>, <<"f","l","a","c">>,
      <<"m","4","a">>, <<"a","a","c">>, <<"o","g","g">> }

MAX_FILE_SIZE == 10 * 1024 * 1024

allowed_file(filename) ==
    HasDot(filename) /\ LowerStr(RsplitExt(filename)) \in ALLOWED_EXTENSIONS

\* -------------------------------------------------------- secure_filename
\* A character outside ASCII with no ASCII decomposition (U+97F3).
NonAscii == "U+97F3"
IsAscii(c) == c # NonAscii

\* os.sep replaced by a space.
SepToSpace(s) == [i \in 1..Len(s) |-> IF s[i] = "/" THEN " " ELSE s[i]]

\* "_".join(s.split()): leading and trailing whitespace dropped, each inner
\* run of whitespace replaced by one "_".
RECURSIVE JoinSplit(_, _)
JoinSplit(s, started) ==
    IF s = <<>> THEN <<>>
    ELSE IF Head(s) = " "
         THEN IF started /\ \E i \in 1..Len(s) : s[i] # " "
              THEN IF Len(s) > 1 /\ s[2] = " "
                   THEN JoinSplit(Tail(s), started)
                   ELSE <<"_">> \o JoinSplit(Tail(s), started)
              ELSE JoinSplit(Tail(s), started)
         ELSE <<Head(s)>> \o JoinSplit(Tail(s), TRUE)

\* The characters [A-Za-z0-9_.-] that _filename_ascii_strip_re keeps.
IsFilenameChar(c) ==
    \/ c \in Range(Uppers) \/ c \in Range(Lowers) \/ c \in Digits
    \/ c \in {"_", ".", "-"}

\* str.strip("._")
RECURSIVE StripDotUnderscore(_)
StripDotUnderscore(s) ==
    IF s = <<>> THEN <<>>
    ELSE IF Head(s) \in {".", "_"} THEN StripDotUnderscore(Tail(s))
    ELSE IF s[Len(s)] \in {".", "_"} THEN StripDotUnderscore(SubSeq(s, 1, Len(s) - 1))
    ELSE s

\* werkzeug.utils.secure_filename on a POSIX host.
secure_filename(filename) ==
    StripDotUnderscore(
        SelectSeq(JoinSplit(SepToSpace(SelectSeq(filename, IsAscii)), FALSE),
                  IsFilenameChar))

\* ------------------------------------------------------------- exceptions
\* str(e) of the NameError that reading the unbound name midi_size raises.
MsgNameError == <<"n","a","m","e"," ","'","m","i","d","i","_","s","i","z","e","'"," ","i","s"," ","n","o","t"," ","d","e","f","i","n","e","d">>
\* str(e) of the IndexError of [1] on a one-element list.
MsgIndexError == <<"l","i","s","t"," ","i","n","d","e","x"," ","o","u","t"," ","o","f"," ","r","a","n","g","e">>
\* str(e) of the OSError of a failing read, mkstemp, write and unlink.
MsgReadError == <<"E","I","O">>
MsgMkstempError == <<"E","E","X","I","S","T">>
MsgWriteError == <<"E","N","O","S","P","C">>
MsgUnlinkError == <<"E","A","C","C","E","S">>
MsgNoFile == <<"E","N","O","E","N","T">>

\* Messages of the exceptions predict and midi_data.write are made to raise.
ErrMsgs ==
    { <<"M","e","m","o","r","y">>,
      <<"m","o","d","e","l"," ","m","e","m","o","r","y">>,
      <<"M","o","d","e","l","s">>,
      <<"b","a","d">> }

PatMemory == <<"m","e","m","o","r","y">>
PatModel == <<"m","o","d","e","l">>

\* -------------------------------------------------------------- responses
\* A JSON value that is a fixed literal, a rendered string, or missing.
Absent == [k |-> "absent", v |-> "", s |-> <<>>]
Lit(v) == [k |-> "lit", v |-> v, s |-> <<>>]
Str(s) == [k |-> "str", v |-> "", s |-> s]

\* jsonify({...}), status
Json(status, error, details, suggestion, trace) ==
    [status |-> status, error |-> error, details |-> details,
     suggestion |-> suggestion, trace |-> trace,
     body |-> -1, mimetype |-> "application/json", download_name |-> ""]

\* send_file(midi_buffer, mimetype='audio/midi', as_attachment=True,
\*           download_name='converted.mid')
send_file(midi_buffer) ==
    [status |-> 200, error |-> "", details |-> Absent,
     suggestion |-> Absent, trace |-> Absent,
     body |-> midi_buffer, mimetype |-> "audio/midi", download_name |-> "converted.mid"]

NoResponse ==
    [status |-> 0, error |-> "", details |-> Absent,
     suggestion |-> Absent, trace |-> Absent,
     body |-> -1, mimetype |-> "", download_name |-> ""]

\* The 400 responses of the validation block.
Rejection(error) == Json(400, error, Absent, Absent, Absent)

ModelNotLoaded ==
    Json(500, "Model not loaded", Lit("Basic Pitch model failed to initialize"),
         Lit("Server restart required"), Absent)

EmptyMidi ==
    Json(500, "Generated MIDI file is empty",
         Lit("No musical content detected in the audio"), Absent, Absent)

\* The except clause with its two tests in the other order: a message that
\* mentions both is answered as a model failure.
MutConversionErrorModelFirst(error_msg) ==
    IF Contains(LowerStr(error_msg), PatModel)
    THEN Json(500, "Model loading failed", Str(error_msg),
              Lit("Server model initialization error"), Absent)
    ELSE IF Contains(LowerStr(error_msg), PatMemory)
    THEN Json(500, "Memory error during conversion",
              Lit("File too large or insufficient server memory"),
              Lit("Try a smaller audio file"), Absent)
    ELSE Json(500, "Conversion failed", Str(error_msg), Absent, Str(error_msg))

\* except Exception as conversion_error: the response chosen from str(e).
ConversionError(error_msg) ==
    IF Contains(LowerStr(error_msg), PatMemory)
    THEN Json(500, "Memory error during conversion",
              Lit("File too large or insufficient server memory"),
              Lit("Try a smaller audio file"), Absent)
    ELSE IF Contains(LowerStr(error_msg), PatModel)
    THEN Json(500, "Model loading failed", Str(error_msg),
              Lit("Server model initialization error"), Absent)
    ELSE Json(500, "Conversion failed", Str(error_msg), Absent, Str(error_msg))

\* except Exception as e: the response of the outermost handler.
ServerError(error_msg) ==
    Json(500, "Server error", Str(error_msg), Absent, Str(error_msg))

\* ------------------------------------------------------------------ inputs
\* len(file.read()) of an upload whose read raises.
Unreadable == -1

Stems == { <<>>, <<"a">>, <<NonAscii, " ">>, <<"b", ".", "c">> }
Exts == { <<"w","a","v">>, <<"O","g","G">>, <<"t","x","t">>, <<>> }

Filenames ==
    {s \o <<".">> \o e : s \in Stems, e \in Exts} \cup { <<>>, <<"w","a","v">> }

Contents == {0, 1, MAX_FILE_SIZE, MAX_FILE_SIZE + 1, Unreadable}

\* A request without a part named 'file'.
NoFilePart == [hasFile |-> FALSE, filename |-> <<>>, content |-> 0]

Uploads ==
    {NoFilePart} \cup
    {[hasFile |-> TRUE, filename |-> f, content |-> c] : f \in Filenames, c \in Contents}

\* The uploads of the concurrent specification: one that converts.
ConcUploads == {[hasFile |-> TRUE, filename |-> <<"a", ".", "w", "a", "v">>, content |-> 1]}

\* Lengths of the buffer midi_data.write produces.
MidiSizes == {0, 3}

\* What predict and midi_data.write may do: the lengths of the serialized
\* MIDI document and the messages of the exceptions raised.
Outcomes == [sizes |-> MidiSizes, msgs |-> ErrMsgs]
ConcOutcomes == [sizes |-> {3}, msgs |-> { <<"b","a","d">> }]

\* ------------------------------------------------------------------- state
VARIABLES
    basic_pitch_model,  \* "Model" or "None": the module-level handle
    fs,                 \* the temporary directory: path -> file or NoFile
    req                 \* thread -> the locals of the request it is handling

vars == <<basic_pitch_model, fs, req>>

NoFile == [owner |-> 0, suffix |-> <<>>, written |-> FALSE, exists |-> FALSE]
NoPath == 0
NoUpload == [hasFile |-> FALSE, filename |-> <<>>, content |-> Unreadable]

\* A thread between two requests.
IdleReq ==
    [pc |-> "idle", upload |-> NoUpload, validation |-> "none",
     file_extension |-> <<>>, temp_file |-> NoPath, temp_file_path |-> NoPath,
     midi_data |-> -1, midi_buffer |-> -1, error_msg |-> Absent,
     pending |-> NoResponse, response |-> NoResponse,
     fault |-> "none", predicts |-> 0, unlinks |-> 0, touched |-> {}]

\* try: basic_pitch_model = Model(...)  except: basic_pitch_model = None
Init ==
    /\ basic_pitch_model \in {"Model", "None"}
    /\ fs = [p \in Paths |-> NoFile]
    /\ req = [t \in Threads |-> IdleReq]

\* A request arrives and a thread enters convert_audio.
Receive(t, U) ==
    /\ req[t].pc = "idle"
    /\ \E u \in U : req' = [req EXCEPT ![t].pc = "validate", ![t].upload = u]
    /\ UNCHANGED <<basic_pitch_model, fs>>

\* The validation block with the size ceiling tested by >= : an upload of
\* exactly MAX_FILE_SIZE bytes is turned away.
MutValidationOutcomeOffByOne(u) ==
    IF ~u.hasFile THEN "No file provided"
    ELSE IF u.filename = <<>> THEN "No file selected"
    ELSE IF ~allowed_file(u.filename) THEN "Unsupported file type"
    ELSE IF u.content = Unreadable THEN "raise"
    ELSE IF u.content >= MAX_FILE_SIZE THEN "File too large (max 10MB)"
    ELSE IF u.content = 0 THEN "Empty file"
    ELSE "pass"

\* The validation block without its empty-file return: an empty upload goes
\* on to the temp-file block.
MutValidationOutcomeNoEmptyCheck(u) ==
    IF ~u.hasFile THEN "No file provided"
    ELSE IF u.filename = <<>> THEN "No file selected"
    ELSE IF ~allowed_file(u.filename) THEN "Unsupported file type"
    ELSE IF u.content = Unreadable THEN "raise"
    ELSE IF u.content > MAX_FILE_SIZE THEN "File too large (max 10MB)"
    ELSE "pass"

\* The validation block: the first return it reaches, "raise" when file.read()
\* raises, "pass" when it falls through to the temp-file block.
ValidationOutcome(u) ==
    IF ~u.hasFile THEN "No file provided"
    ELSE IF u.filename = <<>> THEN "No file selected"
    ELSE IF ~allowed_file(u.filename) THEN "Unsupported file type"
    ELSE IF u.content = Unreadable THEN "raise"
    ELSE IF u.content > MAX_FILE_SIZE THEN "File too large (max 10MB)"
    ELSE IF u.content = 0 THEN "Empty file"
    ELSE "pass"

\* The handler without its outermost except clause: the exception leaves
\* the handler and no response is made.
MutRaisePropagates(t, error_msg, stage) ==
    [req EXCEPT ![t].pc = "done", ![t].response = NoResponse, ![t].fault = stage]

\* The return of the handler through the outermost except clause.
Raise(t, error_msg, stage) ==
    [req EXCEPT ![t].pc = "done", ![t].response = ServerError(error_msg),
                ![t].fault = stage]

Validate(t) ==
    /\ req[t].pc = "validate"
    /\ LET out == ValidationOutcome(req[t].upload) IN
       req' = IF out = "pass"
              THEN [req EXCEPT ![t].pc = "extension", ![t].validation = "Accepted"]
              ELSE IF out = "raise"
              THEN Raise(t, MsgReadError, "read")
              ELSE [req EXCEPT ![t].pc = "done", ![t].validation = out,
                               ![t].response = Rejection(out)]
    /\ UNCHANGED <<basic_pitch_model, fs>>

\* file_extension = secure_filename(file.filename).rsplit('.', 1)[1].lower()
DeriveExtension(t) ==
    /\ req[t].pc = "extension"
    /\ LET name == secure_filename(req[t].upload.filename) IN
       req' = IF HasDot(name)
              THEN [req EXCEPT ![t].pc = "mkstemp",
                               ![t].file_extension = LowerStr(RsplitExt(name))]
              ELSE Raise(t, MsgIndexError, "none")
    /\ UNCHANGED <<basic_pitch_model, fs>>

\* Names chosen without looking at the directory: a file in use can be taken.
MutTempNamesAny(files) == Paths

\* The names mkstemp may give a new file: it opens with O_EXCL, so only names
\* no file has.
TempNames(files) == {p \in Paths : ~files[p].exists}

\* with tempfile.NamedTemporaryFile(delete=False, suffix=...) as temp_file
CreateTemp(t) ==
    /\ req[t].pc = "mkstemp"
    /\ \/ \E p \in TempNames(fs) :
            /\ fs' = [fs EXCEPT ![p] = [owner |-> t, suffix |-> req[t].file_extension,
                                        written |-> FALSE, exists |-> TRUE]]
            /\ req' = [req EXCEPT ![t].pc = "write", ![t].temp_file = p]
       \/ /\ req' = Raise(t, MsgMkstempError, "mkstemp")
          /\ fs' = fs
    /\ UNCHANGED basic_pitch_model

\* temp_file.write(file_content); temp_file_path = temp_file.name; the with
\* block closes the file and, delete=False, leaves it in place.
WriteTemp(t) ==
    /\ req[t].pc = "write"
    /\ \/ /\ fs' = [fs EXCEPT ![req[t].temp_file].written = TRUE]
          /\ req' = [req EXCEPT ![t].pc = "try",
                                ![t].temp_file_path = req[t].temp_file,
                                ![t].touched = @ \cup {fs[req[t].temp_file].owner}]
       \/ /\ req' = Raise(t, MsgWriteError, "write")
          /\ fs' = fs
    /\ UNCHANGED basic_pitch_model

\* The return statement of the try block or of its except clause: the value
\* waits for the finally clause.
ReturnFromTry(t, value) ==
    [req EXCEPT ![t].pc = "finally", ![t].pending = value]

\* The except clause of the try block: error_msg = str(conversion_error).
Except(t, error_msg) ==
    [req EXCEPT ![t].pc = "finally", ![t].error_msg = Str(error_msg),
                ![t].pending = ConversionError(error_msg)]

\* if basic_pitch_model is None: return ..., 500
CheckModel(t) ==
    /\ req[t].pc = "try"
    /\ req' = IF basic_pitch_model = "None"
              THEN ReturnFromTry(t, ModelNotLoaded)
              ELSE [req EXCEPT ![t].pc = "predict"]
    /\ UNCHANGED <<basic_pitch_model, fs>>

\* model_output, midi_data, note_events = predict(temp_file_path, basic_pitch_model)
Predict(t, O) ==
    /\ req[t].pc = "predict"
    /\ LET p == req[t].temp_file_path
           called == [req EXCEPT ![t].predicts = @ + 1,
                                 ![t].touched = @ \cup {fs[p].owner}]
       IN IF ~fs[p].exists
          THEN req' = [called EXCEPT ![t] = Except(t, MsgNoFile)[t]]
                        \* predict cannot open the file
          ELSE \/ \E n \in O.sizes :
                    req' = [called EXCEPT ![t].pc = "serialize", ![t].midi_data = n]
               \/ \E m \in O.msgs :
                    req' = [called EXCEPT ![t].pc = "finally",
                                          ![t].error_msg = Str(m),
                                          ![t].pending = ConversionError(m)]
    /\ UNCHANGED <<basic_pitch_model, fs>>

\* Whether the name midi_size is bound when line 115 reads it: the handler
\* never assigns it.
midi_size_bound == FALSE

\* The statements after a serialization that did not raise: the read of
\* midi_size, the empty-result return and send_file.
AfterSerialize(t, midi_buffer) ==
    IF ~midi_size_bound
    THEN [Except(t, MsgNameError) EXCEPT ![t].midi_buffer = midi_buffer]
    ELSE IF midi_buffer = 0
    THEN [ReturnFromTry(t, EmptyMidi) EXCEPT ![t].midi_buffer = midi_buffer]
    ELSE [ReturnFromTry(t, send_file(midi_buffer)) EXCEPT ![t].midi_buffer = midi_buffer]

\* midi_buffer = io.BytesIO(); midi_data.write(midi_buffer); ... to the return
Serialize(t, O) ==
    /\ req[t].pc = "serialize"
    /\ \/ req' = AfterSerialize(t, req[t].midi_data)
       \/ \E m \in O.msgs : req' = Except(t, m)
    /\ UNCHANGED <<basic_pitch_model, fs>>

\* finally: if os.path.exists(temp_file_path): os.unlink(temp_file_path)
Cleanup(t) ==
    /\ req[t].pc = "finally"
    /\ LET p == req[t].temp_file_path IN
       IF fs[p].exists
       THEN \/ /\ fs' = [fs EXCEPT ![p] = NoFile]
               /\ req' = [req EXCEPT ![t].pc = "return", ![t].unlinks = @ + 1,
                                     ![t].touched = @ \cup {fs[p].owner}]
            \/ /\ req' = Raise(t, MsgUnlinkError, "unlink")
               /\ fs' = fs
       ELSE /\ req' = [req EXCEPT ![t].pc = "return"]
            /\ fs' = fs
    /\ UNCHANGED basic_pitch_model

\* The finally clause is over: the waiting return value leaves the handler.
Return(t) ==
    /\ req[t].pc = "return"
    /\ req' = [req EXCEPT ![t].pc = "done", ![t].response = req[t].pending]
    /\ UNCHANGED <<basic_pitch_model, fs>>

\* The response is sent and the request's locals are gone; a file the
\* request left behind stays, owned by no request in flight.
Finish(t) ==
    /\ req[t].pc = "done"
    /\ req' = [req EXCEPT ![t] = IdleReq]
    /\ fs' = [p \in Paths |-> IF fs[p].owner = t THEN [fs[p] EXCEPT !.owner = 0] ELSE fs[p]]
    /\ UNCHANGED basic_pitch_model

\* One step of the handler in thread t.
Step(t, O) ==
    \/ Validate(t)
    \/ DeriveExtension(t)
    \/ CreateTemp(t)
    \/ WriteTemp(t)
    \/ CheckModel(t)
    \/ Predict(t, O)
    \/ Serialize(t, O)
    \/ Cleanup(t)
    \/ Return(t)

\* One request after another, every upload.
Next == Receive(1, Uploads) \/ Step(1, Outcomes) \/ Finish(1)

Spec == Init /\ [][Next]_vars

\* One thread per request (the threaded server starts a thread for each
\* request it accepts), the requests in flight together.
NextConc == \E t \in Threads : Receive(t, ConcUploads) \/ Step(t, ConcOutcomes)

SpecConc == Init /\ [][NextConc]_vars

\* ------------------------------------------------------------------ claims
Done(t) == req[t].pc = "done"

\* The text after the final '.' of a filename, lower-cased, is in the allow-set.
ExtensionAllowed(filename) ==
    \E i \in 1..Len(filename) :
        /\ filename[i] = "."
        /\ \A j \in (i + 1)..Len(filename) : filename[j] # "."
        /\ LowerStr(SubSeq(filename, i + 1, Len(filename))) \in ALLOWED_EXTENSIONS

\* The upload has a byte length (its read does not raise).
Readable(u) == u.content # Unreadable

\* The first check of the stated order that an upload fails, "Accepted" when
\* it fails none.
FirstFailingCheck(u) ==
    IF ~u.hasFile THEN "No file provided"
    ELSE IF u.filename = <<>> THEN "No file selected"
    ELSE IF ~ExtensionAllowed(u.filename) THEN "Unsupported file type"
    ELSE IF u.content = 0 THEN "Empty file"
    ELSE IF u.content > MAX_FILE_SIZE THEN "File too large (max 10MB)"
    ELSE "Accepted"

\* C1: a request with a valid upload and the model available, whose predict
\* returned and whose serialized MIDI buffer is non-empty, is answered 200 with
\* exactly the buffer as body, as attachment converted.mid of type audio/midi.
C1_SuccessIsMidiAttachment ==
    \A t \in Threads :
        ( /\ Done(t)
          /\ req[t].validation = "Accepted"
          /\ basic_pitch_model = "Model"
          /\ req[t].midi_buffer > 0
          /\ req[t].fault = "none" )
        => /\ req[t].response.status = 200
           /\ req[t].response.body = req[t].midi_buffer
           /\ req[t].response.download_name = "converted.mid"
           /\ req[t].response.mimetype = "audio/midi"

\* C2: a request that created its temporary file has deleted it, once, when
\* its response is returned, on the exit paths the claim lists (among them a
\* fault while writing the upload into the file).
C2_TempFileDeletedOnEveryExit ==
    \A t \in Threads :
        (Done(t) /\ req[t].temp_file # NoPath /\ req[t].fault \in {"none", "write"})
        => /\ ~fs[req[t].temp_file].exists
           /\ req[t].unlinks = 1

\* C3: when predict returned and the serialized MIDI buffer is empty, the
\* response is 500 'Generated MIDI file is empty'.
C3_EmptyMidiIsEmptyResult ==
    \A t \in Threads :
        (Done(t) /\ req[t].midi_buffer = 0 /\ req[t].fault = "none")
        => /\ req[t].response.status = 500
           /\ req[t].response.error = "Generated MIDI file is empty"

\* C4: validation checks file part, filename, extension and byte length in
\* that order; the first failing check alone gives the response, a 400 with
\* no trace; an upload is accepted exactly when it has a file part, a
\* non-empty filename, an allowed extension and 0 < length <= MAX_FILE_SIZE.
C4_ValidationOrderAndBounds ==
    \A t \in Threads :
        req[t].pc \notin {"idle", "validate"} =>
            LET u == req[t].upload
                first == FirstFailingCheck(u)
            IN /\ (req[t].validation = "Accepted") <=>
                      ( /\ u.hasFile /\ u.filename # <<>> /\ ExtensionAllowed(u.filename)
                        /\ Readable(u) /\ 0 < u.content /\ u.content <= MAX_FILE_SIZE )
               /\ (Readable(u) \/ first \in {"No file provided", "No file selected",
                                            "Unsupported file type"})
                      => req[t].validation = first
               /\ req[t].validation \notin {"Accepted", "none"}
                      => /\ Done(t)
                         /\ req[t].response.status = 400
                         /\ req[t].response.error = first
                         /\ req[t].response.trace = Absent

\* C4 witness: an upload of exactly MAX_FILE_SIZE bytes was accepted.
C4_Witness ==
    \E t \in Threads :
        /\ req[t].validation = "Accepted"
        /\ req[t].upload.content = MAX_FILE_SIZE

\* The upload is one validation rejects.
Rejected(u) ==
    LET first == FirstFailingCheck(u) IN
    /\ first # "Accepted"
    /\ (Readable(u) \/ first \in {"No file provided", "No file selected",
                                   "Unsupported file type"})

\* The thread is handling, or takes up, a request whose upload validation rejects.
HandlesRejected(t) ==
    \/ (req[t].pc # "idle" /\ Rejected(req[t].upload))
    \/ (req'[t].pc # "idle" /\ Rejected(req'[t].upload))

\* C5: at no point of handling a request that validation rejects is a temp
\* file created or predict invoked, and no step of it changes the filesystem
\* or the model handle.
C5_RejectedHasNoSideEffects ==
    /\ [](\A t \in Threads :
            (req[t].pc # "idle" /\ Rejected(req[t].upload))
            => /\ req[t].temp_file = NoPath
               /\ req[t].temp_file_path = NoPath
               /\ req[t].predicts = 0
               /\ req[t].touched = {}
               /\ \A p \in Paths : fs[p].owner # t)
    /\ [][\A t \in Threads :
            (HandlesRejected(t) /\ req'[t] # req[t])
            => fs' = fs /\ basic_pitch_model' = basic_pitch_model]_vars

\* C5 witness: an upload over the size ceiling was answered 400.
C5_Witness ==
    \E t \in Threads :
        /\ Done(t)
        /\ req[t].upload.content > MAX_FILE_SIZE
        /\ req[t].response.status = 400

\* C6: with the model not loaded, every request that passes validation is
\* answered 500 'Model not loaded' and predict is not invoked.
C6_ModelUnavailableFailsFast ==
    \A t \in Threads :
        ( /\ Done(t)
          /\ basic_pitch_model = "None"
          /\ req[t].validation = "Accepted"
          /\ req[t].fault = "none" )
        => /\ req[t].response.status = 500
           /\ req[t].response.error = "Model not loaded"
           /\ req[t].predicts = 0

\* The response the stated rule set gives an exception message: memory first,
\* then model, else the generic category with the raw text and a trace.
ClassifiedAs(r, msg) ==
    /\ r.status = 500
    /\ IF Contains(LowerStr(msg), PatMemory)
       THEN r.error = "Memory error during conversion" /\ r.trace = Absent
       ELSE IF Contains(LowerStr(msg), PatModel)
       THEN r.error = "Model loading failed" /\ r.trace = Absent
       ELSE /\ r.error = "Conversion failed"
            /\ r.details = Str(msg)
            /\ r.trace # Absent

\* C7 as stated: the response to a request whose model invocation or MIDI
\* serialization raised is the category its message selects.
C7_ExceptionIsClassified ==
    \A t \in Threads :
        (Done(t) /\ req[t].error_msg # Absent)
        => ClassifiedAs(req[t].response, req[t].error_msg.s)

\* C7 amended: the response is the category the message selects, unless the
\* cleanup step then raises; the response is then the outermost handler's
\* 500 'Server error' with a trace.
C7_ExceptionIsClassifiedUnlessCleanupRaises ==
    \A t \in Threads :
        (Done(t) /\ req[t].error_msg # Absent)
        => IF req[t].fault = "unlink"
           THEN /\ req[t].response.status = 500
                /\ req[t].response.error = "Server error"
                /\ req[t].response.trace # Absent
           ELSE ClassifiedAs(req[t].response, req[t].error_msg.s)

\* C7 witness: a message that mentions both model and memory was answered
\* with the Memory category.
C7_Witness ==
    \E t \in Threads :
        /\ Done(t)
        /\ req[t].error_msg # Absent
        /\ Contains(LowerStr(req[t].error_msg.s), PatModel)
        /\ Contains(LowerStr(req[t].error_msg.s), PatMemory)
        /\ req[t].response.error = "Memory error during conversion"

\* C8: a request has no response before the handler returns, and the handler
\* returns one response, of status 200, 400 or 500, whatever raised on the
\* way: no exception leaves the handler.
C8_AlwaysOneResponse ==
    \A t \in Threads :
        /\ req[t].pc \notin {"idle", "done"}
              => req[t].response = NoResponse
        /\ Done(t) => req[t].response.status \in {200, 400, 500}

\* C8 witness: the cleanup step raised and the request was answered 500.
C8_Witness ==
    \E t \in Threads :
        Done(t) /\ req[t].fault = "unlink" /\ req[t].response.status = 500

\* The request has its temporary file: created and not yet past the cleanup.
Holds(t) ==
    /\ req[t].temp_file # NoPath
    /\ req[t].pc \in {"write", "try", "predict", "serialize", "finally"}

\* C9: requests in flight together hold different temp files, each its own,
\* and a request writes, passes to predict and deletes only a file it created.
C9_TempFilesAreNotShared ==
    /\ \A t1, t2 \in Threads :
          (t1 # t2 /\ Holds(t1) /\ Holds(t2)) => req[t1].temp_file # req[t2].temp_file
    /\ \A t \in Threads :
          /\ Holds(t) => fs[req[t].temp_file].exists /\ fs[req[t].temp_file].owner = t
          /\ req[t].touched \subseteq {t}

\* C9 witness: one request has deleted its file while another is in predict
\* with its own.
C9_Witness ==
    \E t1, t2 \in Threads :
        /\ t1 # t2
        /\ req[t1].pc = "predict"
        /\ req[t2].pc = "return" /\ req[t2].unlinks = 1

\* C10: every upload that passes validation gets a temp file, whose suffix is
\* the extension validation judged on the raw filename.
C10_AcceptedReachesTempFile ==
    \A t \in Threads :
        ( /\ Done(t)
          /\ req[t].validation = "Accepted"
          /\ req[t].fault = "none" )
        => /\ req[t].temp_file # NoPath
           /\ req[t].file_extension = LowerStr(RsplitExt(req[t].upload.filename))

====
